---- MODULE Spec2Model ----
(***************************************************************************)
(* Monarch/peasant election protocol of                                    *)
(* src/src/cascadia/Remoting/WindowManager.cpp.                            *)
(*                                                                         *)
(* Every process owns one WindowManager.  Its constructor registers the    *)
(* process as a COM local server of the Monarch class and then asks COM    *)
(* for a Monarch instance, which may live in another process.  A process   *)
(* is "king" when the Monarch its handle points to reports the process's   *)
(* own pid.  A subject that creates a window starts a thread that waits on *)
(* the king's process handle and on an interrupt event, and runs an        *)
(* election when the king's process ends.                                  *)
(*                                                                         *)
(* The class-object table of COM is modelled by `registered` (the          *)
(* processes whose registration is in force) and `liveProvider` (the       *)
(* registration activations are routed to; a new one is taken from         *)
(* `registered` when the previous one is revoked or its process ends).     *)
(* Monarch and Peasant are implemented outside WindowManager.cpp; their    *)
(* operators follow sections 4.2 and 4.3 of the specification.             *)
(* Pids are given in launch order.  The fields of a WindowManager that has  *)
(* been destroyed, and of a process that has ended, are set back to their  *)
(* initial values: nothing reads them any more.                            *)
(***************************************************************************)
EXTENDS Naturals, FiniteSets, Sequences

\* Number of processes that may be launched (pids 1..MaxProcs).
MaxProcs == 3
\* Number of ProposeCommandline calls one WindowManager may receive.
MaxProposals == 2

Procs == 1..MaxProcs
\* No process / no Monarch / args without a target window.
None == 0
\* CommandlineArgs: no target window, or the window of process t.
Args == {None} \cup Procs

VARIABLES
    proc,           \* process: "off", "run", "terminated", "crashed", "exitprocess"
    wm,             \* WindowManager: "none", "live", "revoked" (destructor before join), "destroyed"
    registered,     \* pids with a class object registered with COM
    liveProvider,   \* the registration activations are routed to, or None
    token,          \* _registrationHostClass # 0
    monarch,        \* _monarch: pid of the process hosting the Monarch, or None
    hosted,         \* a Monarch instance exists in the process
    peasants,       \* Monarch's peasant set, by hosting process: set of <<owner, instance>>
    subs,           \* number of FindTargetWindowRequested handlers on the process's Monarch
    shouldCreate,   \* _shouldCreateWindow
    peasant,        \* _peasant: 0 when null, else the number of the instance made by this process
    mainpc,         \* main thread: "idle", or "create" (inside ProposeCommandline, line 64)
    isKing,         \* the local isKing of the ProposeCommandline call in progress
    proposals,      \* ProposeCommandline calls made so far
    interrupt,      \* _monarchWaitInterrupt is set
    thread,         \* _electionThread: "none", "loop", "open", "wait", "elect", "exited", "joined"
    waitPid,        \* the pid _monarch.GetPID() gave the watcher at line 200
    waitHandle,     \* waits[0]: pid whose process handle is waited on, None for a null handle
    call            \* what the step just taken did of a ProposeCommandline call (NoCall when
                    \* nothing): for the decision who called, as king, whether the Monarch
                    \* was asked, its answer, whether args named one of its peasants; for
                    \* lines 64-77 the operations entered, in order

vars == <<proc, wm, registered, liveProvider, token, monarch, hosted, peasants, subs,
          shouldCreate, peasant, mainpc, isKing, proposals, interrupt, thread,
          waitPid, waitHandle, call>>

\* No part of a ProposeCommandline call.
NoCall == [who |-> None, king |-> FALSE, asked |-> FALSE, answer |-> FALSE, named |-> FALSE,
           steps |-> <<>>]

Init ==
    /\ proc = [p \in Procs |-> "off"]
    /\ wm = [p \in Procs |-> "none"]
    /\ registered = {}
    /\ liveProvider = None
    /\ token = [p \in Procs |-> FALSE]
    /\ monarch = [p \in Procs |-> None]
    /\ hosted = [p \in Procs |-> FALSE]
    /\ peasants = [p \in Procs |-> {}]
    /\ subs = [p \in Procs |-> 0]
    /\ shouldCreate = [p \in Procs |-> FALSE]
    /\ peasant = [p \in Procs |-> 0]
    /\ mainpc = [p \in Procs |-> "idle"]
    /\ isKing = [p \in Procs |-> FALSE]
    /\ proposals = [p \in Procs |-> 0]
    /\ interrupt = [p \in Procs |-> FALSE]
    /\ thread = [p \in Procs |-> "none"]
    /\ waitPid = [p \in Procs |-> None]
    /\ waitHandle = [p \in Procs |-> None]
    /\ call = NoCall

IsAlive(p) == proc[p] = "run"

\* A call through _monarch succeeds only while the hosting process runs.
MonarchReachable(p) == monarch[p] # None /\ IsAlive(monarch[p])

\* _areWeTheKing: ourPID == kingPID, for the pid a reachable Monarch reports.
OurPidIs(p, kingPID) == p = kingPID

AreWeTheKing(p) == OurPidIs(p, monarch[p])

\* std::thread::joinable(): started and not yet joined.
Joinable(p) == thread[p] \in {"loop", "open", "wait", "elect", "exited"}

(***************************************************************************)
(* COM class-object table.                                                 *)
(***************************************************************************)

\* CoRegisterClassObject with a fault: a class object can be registered by one
\* process at a time, as with an exclusive registration.
CoRegisterClassObjectExclusive(reg, p) == IF reg = {} THEN "S_OK" ELSE "CO_E_OBJISREG"

\* The HRESULT of CoRegisterClassObject(..., CLSCTX_LOCAL_SERVER,
\* REGCLS_MULTIPLEUSE, ...): the class objects of several processes are
\* registered side by side, whoever registered before.
CoRegisterClassObject(reg, p) == "S_OK"

\* _registerAsMonarch, the registration made: the process joins the table.
RegisterAsMonarch(reg, p) == reg \cup {p}

\* RevokeClassObject with a fault: the registration is left in force.
RevokeNothing(reg, p) == reg

\* CoRevokeClassObject(_registrationHostClass).
RevokeClassObject(reg, p) == reg \ {p}

\* The provider activations go to once registration p is no longer in force.
LiveWithout(live, p) == IF live = p THEN None ELSE live

\* Providers with a fault: the instance is always made in the calling process,
\* as an in-process activation would.
ProvidersInProc(reg, live, p) == {p}

\* create_instance<Monarch>(Monarch_clsid, CLSCTX_LOCAL_SERVER): the processes
\* the activation may be served by. Empty: the call fails (class not registered).
Providers(reg, live, p) == IF live # None THEN {live} ELSE reg

(***************************************************************************)
(* Monarch (section 4.3 of the specification).                             *)
(***************************************************************************)

\* args names a window represented in the peasant set of the Monarch in m.
NamesPeasant(m, a) == a # None /\ \E g \in 1..MaxProposals : <<a, g>> \in peasants[m]

\* Monarch.proposeCommandline(args); t is the target a FindTargetWindowRequested
\* listener supplies (None: it supplies none). TRUE: "you create the window".
MonarchPropose(m, a, t) ==
    IF NamesPeasant(m, a) THEN FALSE
    ELSE IF subs[m] > 0 /\ NamesPeasant(m, t) THEN FALSE
    ELSE TRUE

\* Monarch.addPeasant(p): insert into the peasant set.
AddPeasant(ps, m, p, g) == [ps EXCEPT ![m] = @ \cup {<<p, g>>}]

(***************************************************************************)
(* The end of a process: its registration, its Monarch and its handlers go,*)
(* and so does its WindowManager.                                          *)
(***************************************************************************)
Ends(p, how, ps) ==
    /\ proc' = [proc EXCEPT ![p] = how]
    /\ registered' = registered \ {p}
    /\ liveProvider' = LiveWithout(liveProvider, p)
    /\ hosted' = [hosted EXCEPT ![p] = FALSE]
    /\ peasants' = [ps EXCEPT ![p] = {}]
    /\ subs' = [subs EXCEPT ![p] = 0]
    /\ wm' = [wm EXCEPT ![p] = "none"]
    /\ token' = [token EXCEPT ![p] = FALSE]
    /\ monarch' = [monarch EXCEPT ![p] = None]
    /\ shouldCreate' = [shouldCreate EXCEPT ![p] = FALSE]
    /\ peasant' = [peasant EXCEPT ![p] = 0]
    /\ mainpc' = [mainpc EXCEPT ![p] = "idle"]
    /\ isKing' = [isKing EXCEPT ![p] = FALSE]
    /\ proposals' = [proposals EXCEPT ![p] = 0]
    /\ interrupt' = [interrupt EXCEPT ![p] = FALSE]
    /\ thread' = [thread EXCEPT ![p] = "none"]
    /\ waitPid' = [waitPid EXCEPT ![p] = None]
    /\ waitHandle' = [waitHandle EXCEPT ![p] = None]

\* The process ends from outside: it exits, is closed or is killed.
Terminate(p) ==
    /\ IsAlive(p)
    /\ Ends(p, "terminated", peasants)
    /\ call' = NoCall

(***************************************************************************)
(* WindowManager, main thread.                                             *)
(***************************************************************************)

\* _createMonarchAndCallbacks with no exception: _createMonarch gave the Monarch
\* hosted in m; the handler is subscribed when we are the king.
CreateMonarchAndCallbacks(p, m) ==
    /\ liveProvider' = m
    /\ monarch' = [monarch EXCEPT ![p] = m]
    /\ hosted' = [hosted EXCEPT ![m] = TRUE]
    /\ subs' = IF OurPidIs(p, m) THEN [subs EXCEPT ![p] = @ + 1] ELSE subs

\* WindowManager::WindowManager(), run when the process is launched.
\* check_hresult throws out of the constructor on a failure HRESULT.
Start(p) ==
    /\ proc[p] = "off"
    /\ \A q \in Procs : q < p => proc[q] # "off"
    /\ call' = NoCall
    /\ IF CoRegisterClassObject(registered, p) # "S_OK"
       THEN Ends(p, "crashed", peasants)
       ELSE /\ proc' = [proc EXCEPT ![p] = "run"]
            /\ wm' = [wm EXCEPT ![p] = "live"]
            /\ registered' = RegisterAsMonarch(registered, p)
            /\ token' = [token EXCEPT ![p] = TRUE]
            /\ \E m \in Providers(registered', liveProvider, p) :
                    CreateMonarchAndCallbacks(p, m)
            /\ UNCHANGED <<peasants, shouldCreate, peasant, mainpc, isKing, proposals,
                           interrupt, thread, waitPid, waitHandle>>

\* Decision with a fault: the king's own launch is not taken into account.
DecisionAnswerOnly(king, answer) == answer

\* Decision with a fault: a window is always created.
DecisionCreate(king, answer) == TRUE

\* _shouldCreateWindow = isKing || _monarch.ProposeCommandline(args).
Decision(king, answer) == king \/ answer

\* CreateBranch with a fault: the creation is not guarded by the decision.
CreateBranchUnguarded(create) == "create"

\* if (_shouldCreateWindow), line 64: where the main thread goes after the decision.
CreateBranch(create) == IF create THEN "create" ELSE "idle"

\* Whether _monarch.ProposeCommandline is evaluated: || short-circuits.
AsksMonarch(king) == ~king

\* ProposeCommandline, lines 47-53: the decision. A call through a _monarch whose
\* process has ended throws out of ProposeCommandline.
ProposeDecide(p, a, t) ==
    /\ IsAlive(p) /\ wm[p] = "live" /\ mainpc[p] = "idle"
    /\ proposals[p] < MaxProposals
    /\ IF ~MonarchReachable(p)
       THEN /\ Ends(p, "crashed", peasants)
            /\ call' = [NoCall EXCEPT !.who = p]
       ELSE LET king == AreWeTheKing(p)
                asked == AsksMonarch(king)
                answer == asked /\ MonarchPropose(monarch[p], a, t)
                create == Decision(king, answer)
            IN  /\ shouldCreate' = [shouldCreate EXCEPT ![p] = create]
                /\ mainpc' = [mainpc EXCEPT ![p] = CreateBranch(create)]
                /\ isKing' = [isKing EXCEPT ![p] = CreateBranch(create) = "create" /\ king]
                /\ proposals' = [proposals EXCEPT ![p] = @ + 1]
                /\ call' = [who |-> p, king |-> king, asked |-> asked, answer |-> answer,
                             named |-> NamesPeasant(monarch[p], a), steps |-> <<>>]
                /\ UNCHANGED <<proc, registered, liveProvider, hosted, peasants, subs,
                               wm, token, monarch, peasant, interrupt, thread, waitPid,
                               waitHandle>>

\* _createOurPeasant, line 148-149: the instance _peasant is set to.
NewPeasant(p) == peasant[p] + 1

\* CreatePath with a fault: the commandline is executed before the peasant is
\* added to the Monarch.
CreatePathExecuteFirst(king) ==
    IF king THEN <<"make_self", "ExecuteCommandline", "AddPeasant">>
    ELSE <<"make_self", "ExecuteCommandline", "AddPeasant", "_createPeasantThread">>

\* CreatePath with a fault: no watcher is started.
CreatePathNoThread(king) == <<"make_self", "AddPeasant", "ExecuteCommandline">>

\* Lines 64-77, the operations in program order: _createOurPeasant (make_self
\* and the assignment to _peasant, then _monarch.AddPeasant), _createPeasantThread
\* if (!isKing), _peasant.ExecuteCommandline.
CreatePath(king) ==
    IF king THEN <<"make_self", "AddPeasant", "ExecuteCommandline">>
    ELSE <<"make_self", "AddPeasant", "_createPeasantThread", "ExecuteCommandline">>

\* The operation does not return: AddPeasant on an ended Monarch throws; the
\* assignment to a joinable std::thread, made once the new thread has been
\* started, calls std::terminate.
Throws(p, step) ==
    \/ step = "AddPeasant" /\ ~MonarchReachable(p)
    \/ step = "_createPeasantThread" /\ Joinable(p)

\* Index of the first operation of path that does not return, Len(path) + 1
\* when all return.
FirstThrow(p, path) ==
    IF \E i \in 1..Len(path) : Throws(p, path[i])
    THEN CHOOSE i \in 1..Len(path) :
            Throws(p, path[i]) /\ \A j \in 1..(i - 1) : ~Throws(p, path[j])
    ELSE Len(path) + 1

\* Operation step of path has been run and has returned.
Completed(p, path, step) ==
    \E i \in 1..Len(path) : path[i] = step /\ i < FirstThrow(p, path)

\* The operations of path entered: all, or those up to the one that throws.
Entered(p, path) ==
    SubSeq(path, 1, IF FirstThrow(p, path) > Len(path) THEN Len(path)
                    ELSE FirstThrow(p, path))

\* ProposeCommandline, lines 64-77, run as far as it gets. An exception or
\* std::terminate ends the process.
ProposeCreate(p) ==
    /\ IsAlive(p) /\ mainpc[p] = "create"
    /\ LET path == CreatePath(isKing[p])
           ps == IF Completed(p, path, "AddPeasant")
                 THEN AddPeasant(peasants, monarch[p], p, NewPeasant(p))
                 ELSE peasants
       IN  /\ call' = [NoCall EXCEPT !.steps = Entered(p, path)]
           /\ IF FirstThrow(p, path) <= Len(path)
              THEN Ends(p, "crashed", ps)
              ELSE /\ peasant' = [peasant EXCEPT ![p] = NewPeasant(p)]
                   /\ peasants' = ps
                   /\ thread' = [thread EXCEPT ![p] =
                                    IF Completed(p, path, "_createPeasantThread")
                                    THEN "loop" ELSE @]
                   /\ mainpc' = [mainpc EXCEPT ![p] = "idle"]
                   /\ isKing' = [isKing EXCEPT ![p] = FALSE]
                   /\ UNCHANGED <<proc, registered, liveProvider, hosted, subs, wm,
                                  token, monarch, shouldCreate, proposals, interrupt,
                                  waitPid, waitHandle>>

\* ClearToken with a fault: the token keeps its value after the revocation.
KeepToken(tok, p) == tok

\* _registrationHostClass = 0, line 36.
ClearToken(tok, p) == [tok EXCEPT ![p] = FALSE]

\* ~WindowManager, lines 35-37: revoke the registration, clear the token, set the
\* interrupt.
Destroy(p) ==
    /\ IsAlive(p) /\ wm[p] = "live" /\ mainpc[p] = "idle"
    /\ registered' = RevokeClassObject(registered, p)
    /\ liveProvider' = LiveWithout(liveProvider, p)
    /\ token' = ClearToken(token, p)
    /\ interrupt' = [interrupt EXCEPT ![p] = TRUE]
    /\ wm' = [wm EXCEPT ![p] = "revoked"]
    /\ UNCHANGED <<proc, monarch, hosted, peasants, subs, shouldCreate, peasant, mainpc,
                   isKing, proposals, thread, waitPid, waitHandle>>
    /\ call' = NoCall

\* ~WindowManager, lines 39-42: join the watcher when it is joinable; the members
\* are then destroyed.
Join(p) ==
    /\ IsAlive(p) /\ wm[p] = "revoked"
    /\ Joinable(p) => thread[p] = "exited"
    /\ thread' = [thread EXCEPT ![p] = IF Joinable(p) THEN "joined" ELSE @]
    /\ wm' = [wm EXCEPT ![p] = "destroyed"]
    /\ monarch' = [monarch EXCEPT ![p] = None]
    /\ shouldCreate' = [shouldCreate EXCEPT ![p] = FALSE]
    /\ peasant' = [peasant EXCEPT ![p] = 0]
    /\ proposals' = [proposals EXCEPT ![p] = 0]
    /\ interrupt' = [interrupt EXCEPT ![p] = FALSE]
    /\ UNCHANGED <<proc, registered, liveProvider, token, hosted, peasants, subs,
                   mainpc, isKing, waitPid, waitHandle>>
    /\ call' = NoCall

(***************************************************************************)
(* Election Watcher: _waitOnMonarchThread.                                 *)
(***************************************************************************)

\* Line 200: _monarch.GetPID() at the top of the loop. The call throws when the
\* Monarch's process has ended; nothing catches it on the thread.
WatcherGetPid(p) ==
    /\ IsAlive(p) /\ thread[p] = "loop"
    /\ call' = NoCall
    /\ IF MonarchReachable(p)
       THEN /\ waitPid' = [waitPid EXCEPT ![p] = monarch[p]]
            /\ thread' = [thread EXCEPT ![p] = "open"]
            /\ UNCHANGED <<proc, registered, liveProvider, hosted, peasants, subs, wm,
                           token, monarch, shouldCreate, peasant, mainpc, isKing,
                           proposals, interrupt, waitHandle>>
       ELSE Ends(p, "crashed", peasants)

\* Lines 198-214: OpenProcess on that pid, unchecked, then the wait is entered.
\* For a process that has ended OpenProcess gives a handle (the process object
\* is still held open) or null (the pid is gone).
WatcherOpen(p, ok) ==
    /\ IsAlive(p) /\ thread[p] = "open"
    /\ IsAlive(waitPid[p]) => ok
    /\ waitHandle' = [waitHandle EXCEPT ![p] = IF ok THEN waitPid[p] ELSE None]
    /\ waitPid' = [waitPid EXCEPT ![p] = None]
    /\ thread' = [thread EXCEPT ![p] = "wait"]
    /\ UNCHANGED <<proc, wm, registered, liveProvider, token, monarch, hosted, peasants,
                   subs, shouldCreate, peasant, mainpc, isKing, proposals, interrupt>>
    /\ call' = NoCall

\* WaitForMultipleObjects(2, waits, FALSE, INFINITE): the lowest signalled index,
\* WAIT_FAILED for an invalid handle, "blocked" while nothing is signalled.
WaitForMultipleObjects(p) ==
    IF waitHandle[p] = None THEN "WAIT_FAILED"
    ELSE IF ~IsAlive(waitHandle[p]) THEN "WAIT_OBJECT_0"
    ELSE IF interrupt[p] THEN "WAIT_OBJECT_1"
    ELSE "blocked"

\* WaitSwitch with a fault: the default case ends the thread like the timeout case.
WaitSwitchNoExit(r) == IF r = "WAIT_OBJECT_0" THEN "elect" ELSE "exited"

\* The switch on waitResult, lines 216-251: where the thread goes next.
WaitSwitch(r) ==
    CASE r = "WAIT_OBJECT_0" -> "elect"
      [] r = "WAIT_OBJECT_1" -> "exited"
      [] r = "WAIT_TIMEOUT" -> "exited"
      [] OTHER -> "exitprocess"

\* The wait returns r and the switch runs.
WaitReturns(p, r) ==
    /\ IsAlive(p) /\ thread[p] = "wait"
    /\ call' = NoCall
    /\ IF WaitSwitch(r) = "exitprocess"
       THEN Ends(p, "exitprocess", peasants)
       ELSE /\ thread' = [thread EXCEPT ![p] = WaitSwitch(r)]
            /\ waitHandle' = [waitHandle EXCEPT ![p] = None]
            /\ UNCHANGED <<proc, registered, liveProvider, hosted, peasants, subs, wm,
                           token, monarch, shouldCreate, peasant, mainpc, isKing,
                           proposals, interrupt, waitPid>>

WatcherWakes(p) ==
    /\ WaitForMultipleObjects(p) # "blocked"
    /\ WaitReturns(p, WaitForMultipleObjects(p))

\* ElectionPeasants with a fault: the new Monarch is not told of the peasant.
ElectionPeasantsUntold(ps, m, p) == ps

\* _monarch.AddPeasant(_peasant), line 165: the peasant sets after the election.
ElectionPeasants(ps, m, p) == AddPeasant(ps, m, p, peasant[p])

\* AfterElection with a fault: the watcher loops whatever the election gave.
AfterElectionLoops(king) == "loop"

\* exitRequested = _electionNight2020() and while (!exitRequested), lines 226
\* and 196: where the thread goes after an election.
AfterElection(king) == IF king THEN "exited" ELSE "loop"

\* _electionNight2020 and the loop condition, lines 160-176 and 226: connect,
\* AddPeasant, then exit the thread when king, else loop. create_instance throws
\* when no class object is registered.
WatcherElects(p) ==
    /\ IsAlive(p) /\ thread[p] = "elect"
    /\ call' = NoCall
    /\ IF Providers(registered, liveProvider, p) = {}
       THEN Ends(p, "crashed", peasants)
       ELSE \E m \in Providers(registered, liveProvider, p) :
            /\ CreateMonarchAndCallbacks(p, m)
            /\ peasants' = ElectionPeasants(peasants, m, p)
            /\ thread' = [thread EXCEPT ![p] = AfterElection(OurPidIs(p, m))]
            /\ UNCHANGED <<proc, registered, wm, token, shouldCreate, peasant, mainpc,
                           isKing, proposals, interrupt, waitPid, waitHandle>>

\* The wait returns WAIT_TIMEOUT although nothing is signalled: the result the
\* switch has a case for and the INFINITE wait is not expected to give.
WaitTimesOut(p) ==
    /\ WaitForMultipleObjects(p) = "blocked"
    /\ WaitReturns(p, "WAIT_TIMEOUT")

Next ==
    \/ \E p \in Procs : Start(p)
    \/ \E p \in Procs, a \in Args, t \in Args : ProposeDecide(p, a, t)
    \/ \E p \in Procs : ProposeCreate(p)
    \/ \E p \in Procs : Destroy(p)
    \/ \E p \in Procs : Join(p)
    \/ \E p \in Procs : Terminate(p)
    \/ \E p \in Procs : WatcherGetPid(p)
    \/ \E p \in Procs, ok \in BOOLEAN : WatcherOpen(p, ok)
    \/ \E p \in Procs : WatcherWakes(p)
    \/ \E p \in Procs : WatcherElects(p)

Spec == Init /\ [][Next]_vars

\* The program with every value of waitResult the switch tells apart.
NextWaitResults ==
    \/ Next
    \/ \E p \in Procs : WaitTimesOut(p)

SpecWaitResults == Init /\ [][NextWaitResults]_vars

(***************************************************************************)
(* Settled states and roles.                                               *)
(***************************************************************************)

\* A WindowManager that can call its Monarch.
Connected(p) == IsAlive(p) /\ wm[p] = "live" /\ MonarchReachable(p)

\* p evaluates itself as king.
King(p) == Connected(p) /\ AreWeTheKing(p)

\* Every start, proposal, termination and election has run to its end: no
\* process is inside ProposeCommandline or its teardown, and every watcher has
\* exited or is blocked in the wait.
Settled ==
    \A p \in Procs : IsAlive(p) =>
        /\ wm[p] = "live" /\ mainpc[p] = "idle"
        /\ \/ thread[p] \in {"none", "exited"}
           \/ thread[p] = "wait" /\ WaitForMultipleObjects(p) = "blocked"

\* C1 (single coordinator): in every settled state at most one running process
\* evaluates itself as king, and all connected WindowManagers hold handles to
\* the Monarch of one and the same process.
C1_SingleCoordinator ==
    Settled =>
        /\ \A p, q \in Procs : King(p) /\ King(q) => p = q
        /\ \A p, q \in Procs : Connected(p) /\ Connected(q) => monarch[p] = monarch[q]

\* C1 witness: a settled state after an election: a king whose watcher has
\* exited and a subject that waits on it, after some process has ended.
C1_Witness ==
    /\ Settled
    /\ \E p, q, d \in Procs :
        /\ King(p) /\ thread[p] = "exited"
        /\ Connected(q) /\ monarch[q] = p /\ thread[q] = "wait"
        /\ proc[d] = "terminated"

(***************************************************************************)
(* Steps of ProposeCommandline, told by what they change.                  *)
(***************************************************************************)

\* p's call took its decision (lines 47-53) without throwing.
DecideStep(p) == proposals'[p] = proposals[p] + 1

\* p's call ran lines 64-77 to the end.
CreateStep(p) == mainpc[p] = "create" /\ mainpc'[p] = "idle" /\ proc'[p] = "run"

\* C3 (teardown safety): once the destructor of a WindowManager has run, its
\* process holds no registration and no token, activations are not routed to it,
\* and no connect, by a starting process or by an electing watcher, gets a
\* Monarch in that process. It holds of every WindowManager, in particular of
\* one that never became king.
C3_TeardownSafety ==
    /\ [](\A p \in Procs : wm[p] \in {"revoked", "destroyed"} =>
            p \notin registered /\ liveProvider # p /\ ~token[p])
    /\ [][\A p, q \in Procs :
            wm[p] \in {"revoked", "destroyed"} /\ monarch'[q] # monarch[q]
                => monarch'[q] # p]_vars

\* C3 witness: a subject that never hosted a Monarch has been destroyed and its
\* watcher joined, its process still runs, and another process has been elected
\* king.
C3_Witness ==
    \E p, q \in Procs :
        /\ IsAlive(p) /\ wm[p] = "destroyed" /\ thread[p] = "joined" /\ ~hosted[p]
        /\ King(q) /\ thread[q] = "exited" /\ registered = {q}

\* C4 (no windowless coordinator): the process that hosts the live Monarch has
\* decided to create a window and has its peasant (or is inside the call that
\* makes it), or became king at construction and has not proposed yet.
C4_HostHasWindow ==
    \A m \in Procs :
        liveProvider = m /\ hosted[m] =>
            \/ shouldCreate[m] /\ (peasant[m] > 0 \/ mainpc[m] = "create")
            \/ King(m) /\ proposals[m] = 0

\* C5 (the king creates): a decision taken by a king is "create" and the
\* Monarch is not asked; when the call has run, _shouldCreateWindow is true, a
\* new local peasant exists and is in the Monarch's peasant set, and the
\* watcher thread is as it was. The call of a king never throws.
C5_KingCreates ==
    [][\A p \in Procs :
        /\ DecideStep(p) /\ King(p) =>
              /\ shouldCreate'[p] /\ mainpc'[p] = "create" /\ isKing'[p]
              /\ call'.who = p /\ call'.king /\ ~call'.asked
        /\ mainpc[p] = "create" /\ isKing[p] => proc'[p] # "crashed"
        /\ CreateStep(p) /\ isKing[p] =>
              /\ shouldCreate'[p]
              /\ peasant'[p] = peasant[p] + 1
              /\ <<p, peasant'[p]>> \in peasants'[monarch'[p]]
              /\ thread'[p] = thread[p]]_vars

\* C5 witness: a king has run its second call; both made a peasant and both
\* peasants are in its Monarch's set.
C5_Witness ==
    \E p \in Procs :
        /\ King(p) /\ mainpc[p] = "idle" /\ proposals[p] = 2
        /\ shouldCreate[p] /\ peasant[p] = 2 /\ thread[p] = "none"
        /\ {<<p, 1>>, <<p, 2>>} \subseteq peasants[p]

\* C6 (the subject obeys): a decision taken by a WindowManager that is not king
\* asks the Monarch and _shouldCreateWindow is the Monarch's answer; when the
\* answer is "do not create" the call is over: no peasant is made, no peasant
\* set changes, no watcher is started and lines 64-77 are not entered.
C6_SubjectObeys ==
    [][\A p \in Procs :
        DecideStep(p) /\ ~King(p) =>
            /\ call'.who = p /\ call'.asked /\ ~call'.king
            /\ shouldCreate'[p] = call'.answer
            /\ ~call'.answer =>
                  /\ mainpc'[p] = "idle"
                  /\ peasant' = peasant /\ peasants' = peasants /\ thread' = thread]_vars

\* C6 witness: a subject was answered "do not create" and has no peasant and no
\* watcher.
C6_Witness ==
    \E p \in Procs :
        /\ Connected(p) /\ ~King(p) /\ call.who = p /\ call.asked /\ ~call.answer
        /\ proposals[p] > 0 /\ ~shouldCreate[p] /\ peasant[p] = 0
        /\ thread[p] = "none" /\ mainpc[p] = "idle"

\* C7 as stated (routing idempotence whichever the role): a call whose args name
\* an existing peasant never decides "create".
C7_Original ==
    [][\A p \in Procs : DecideStep(p) /\ call'.named => ~shouldCreate'[p]]_vars

\* C7 amended (routing idempotence for a subject): a call by a WindowManager that
\* is not king, with args that name an existing peasant, decides "do not create"
\* every time; no peasant is made and the local peasant stays as it is.
C7_SubjectRoutingIdempotent ==
    [][\A p \in Procs :
        DecideStep(p) /\ call'.named /\ ~King(p) =>
            /\ ~shouldCreate'[p] /\ mainpc'[p] = "idle"
            /\ peasant' = peasant /\ peasants' = peasants]_vars

\* C7 witness: a subject has made its second call, the args named an existing
\* peasant, and the subject has never made a peasant.
C7_Witness ==
    \E p \in Procs :
        /\ Connected(p) /\ ~King(p) /\ proposals[p] = 2
        /\ call.who = p /\ call.named /\ ~call.king
        /\ ~shouldCreate[p] /\ peasant[p] = 0 /\ mainpc[p] = "idle"

\* C8 as stated (the interrupt wins): once the interrupt is set the watcher does
\* not start an election.
C8_NoElectionAfterInterrupt ==
    [][\A p \in Procs :
        interrupt[p] /\ thread'[p] = "elect" => thread[p] = "elect"]_vars

\* C9 as stated, its safety part (teardown completes): a teardown in progress is
\* not cut short by the process's own threads ending the process.
C9_TeardownNotAborted ==
    [][\A p \in Procs :
        wm[p] = "revoked" => proc'[p] \notin {"crashed", "exitprocess"}]_vars

(***************************************************************************)
(* Election convergence.                                                   *)
(***************************************************************************)

\* A subject whose watcher thread runs.
RunningWatcher(p) ==
    IsAlive(p) /\ wm[p] = "live" /\ thread[p] \in {"loop", "open", "wait", "elect"}

\* The process p takes for its coordinator has ended.
KingEnded(p) == monarch[p] # None /\ ~IsAlive(monarch[p])

\* C2 as stated, its safety part (no survivor is lost): when the king has ended
\* and two subjects with running watchers survive it, no step of a survivor's
\* watcher ends the survivor's process.
C2_NoSurvivorLost ==
    [][\A p, q \in Procs :
        /\ p # q /\ RunningWatcher(p) /\ RunningWatcher(q)
        /\ KingEnded(p) /\ monarch[q] = monarch[p]
        /\ mainpc[p] = "idle" /\ call' = NoCall
        => proc'[p] \in {"run", "terminated"}]_vars

(***************************************************************************)
(* Results of the wait.                                                    *)
(***************************************************************************)

\* The step takes p's watcher out of the wait, and is not the end of the
\* process from outside or on its main thread.
LeavesWait(p) ==
    /\ IsAlive(p) /\ thread[p] = "wait" /\ thread'[p] # "wait"
    /\ proc'[p] \notin {"terminated", "crashed"}

\* C10 as stated (unexpected results are fatal): a wait that returns with
\* neither the coordinator's end nor the interrupt signalled ends the process.
C10_Original ==
    [][\A p \in Procs :
        LeavesWait(p)
        /\ WaitForMultipleObjects(p) \notin {"WAIT_OBJECT_0", "WAIT_OBJECT_1"}
        => proc'[p] = "exitprocess"]_vars

\* C10 amended: a wait failure ends the process at once (ExitProcess), with no
\* retry; a timeout result ends only the watcher thread and the process runs
\* on, its WindowManager and its role unchanged.
C10_WaitFailureFatal ==
    [][\A p \in Procs :
        LeavesWait(p) =>
            /\ WaitForMultipleObjects(p) = "WAIT_FAILED" => proc'[p] = "exitprocess"
            /\ WaitForMultipleObjects(p) = "blocked" =>
                  /\ proc'[p] = "run" /\ thread'[p] = "exited"
                  /\ wm'[p] = wm[p] /\ monarch'[p] = monarch[p]]_vars

\* C10 witness: one process was ended by ExitProcess, and another is a subject
\* whose watcher has exited although no interrupt was set.
C10_Witness ==
    \E p, q \in Procs :
        /\ proc[p] = "exitprocess"
        /\ IsAlive(q) /\ wm[q] = "live" /\ thread[q] = "exited"
        /\ ~interrupt[q] /\ ~AreWeTheKing(q) /\ peasant[q] > 0

(***************************************************************************)
(* Construction and the registration.                                      *)
(***************************************************************************)

\* The step is p's constructor.
StartStep(p) == proc[p] = "off" /\ proc'[p] # "off"

ElectionStep(p) == thread[p] = "elect" /\ thread'[p] # "elect" /\ proc'[p] = "run"

\* C12 (registered once, revoked once): a running process holds a token exactly
\* while its registration is in force, which is exactly while its WindowManager
\* is live; a registration and a token appear only in the constructor, a
\* registration goes only in the destructor or with the process, and an
\* election changes neither. After the destructor the token is clear and stays
\* clear.
C12_RegisteredOnceRevokedOnce ==
    /\ [](\A p \in Procs : IsAlive(p) =>
            /\ token[p] <=> p \in registered
            /\ token[p] <=> wm[p] = "live")
    /\ [][\A p \in Procs :
            /\ p \notin registered /\ p \in registered' => StartStep(p)
            /\ ~token[p] /\ token'[p] => StartStep(p)
            /\ p \in registered /\ p \notin registered' =>
                  \/ wm[p] = "live" /\ wm'[p] = "revoked"
                  \/ proc'[p] # "run"
            /\ ElectionStep(p) =>
                  /\ p \in registered' <=> p \in registered
                  /\ token'[p] = token[p]]_vars

\* C12 witness: a process that was launched as a subject, won an election and
\* was then destroyed still runs, with no registration and a clear token.
C12_Witness ==
    \E p, d \in Procs :
        /\ IsAlive(p) /\ wm[p] = "destroyed" /\ thread[p] = "joined"
        /\ hosted[p] /\ subs[p] = 1
        /\ ~token[p] /\ p \notin registered
        /\ proc[d] = "terminated"

(***************************************************************************)
(* The watcher thread and the create path.                                 *)
(***************************************************************************)

\* Operation step is among those entered.
Has(steps, step) == \E i \in 1..Len(steps) : steps[i] = step

\* Operation a was entered before operation b.
Before(steps, a, b) ==
    \E i, j \in 1..Len(steps) : i < j /\ steps[i] = a /\ steps[j] = b

\* The step is p's ProposeCommandline running lines 64-77, to the end or to a throw.
CreatePathStep(p) ==
    /\ mainpc[p] = "create" /\ mainpc'[p] = "idle"
    /\ call'.steps # <<>>

\* The step starts a watcher thread in p.
StartsWatcher(p) == CreatePathStep(p) /\ Has(call'.steps, "_createPeasantThread")

\* C13 as stated (one watcher per process): a watcher thread is started only
\* while no watcher thread of the process runs, and only by a call that decided
\* "create" in a process that is not king; a running watcher goes only by
\* becoming king, by the teardown or with the process.
C13_OneWatcher ==
    [][\A p \in Procs :
        /\ StartsWatcher(p) =>
              /\ thread[p] \notin {"loop", "open", "wait", "elect"}
              /\ shouldCreate[p] /\ ~isKing[p]
        /\ thread[p] = "none" /\ thread'[p] # "none" => StartsWatcher(p)
        /\ thread[p] # "exited" /\ thread'[p] = "exited" =>
              \/ OurPidIs(p, monarch'[p])
              \/ interrupt[p]]_vars

\* C17 (order of the create path): whenever ExecuteCommandline is called the
\* peasant has been made and AddPeasant has returned before; a call that runs
\* to its end has made the peasant, added it, started the watcher exactly when
\* the process is not king, and called ExecuteCommandline last, and the
\* peasant is in the peasant set of the Monarch.
C17_CreateOrder ==
    [][\A p \in Procs :
        /\ CreatePathStep(p) /\ Has(call'.steps, "ExecuteCommandline") =>
              /\ Before(call'.steps, "make_self", "AddPeasant")
              /\ Before(call'.steps, "AddPeasant", "ExecuteCommandline")
              /\ proc'[p] = "run"
        /\ CreateStep(p) =>
              /\ call'.steps[Len(call'.steps)] = "ExecuteCommandline"
              /\ Has(call'.steps, "_createPeasantThread") <=> ~isKing[p]
              /\ ~isKing[p] =>
                    /\ Before(call'.steps, "AddPeasant", "_createPeasantThread")
                    /\ Before(call'.steps, "_createPeasantThread", "ExecuteCommandline")
                    /\ thread'[p] = "loop"
              /\ isKing[p] => thread'[p] = thread[p]
              /\ <<p, peasant'[p]>> \in peasants'[monarch'[p]]]_vars

\* C17 witness: a subject has just run the create path to its end: four
\* operations, ExecuteCommandline last, its watcher started and its peasant in
\* the set of the king's Monarch.
C17_Witness ==
    \E p \in Procs :
        /\ Connected(p) /\ ~King(p) /\ mainpc[p] = "idle"
        /\ Len(call.steps) = 4 /\ call.steps[4] = "ExecuteCommandline"
        /\ thread[p] = "loop" /\ peasant[p] = 1
        /\ <<p, 1>> \in peasants[monarch[p]]

(***************************************************************************)
(* After an election.                                                      *)
(***************************************************************************)

\* The step is taken by p's watcher in an election, whatever its outcome.
WatcherElectionStep(p) ==
    /\ thread[p] = "elect" /\ thread'[p] # "elect"
    /\ proc'[p] # "terminated" /\ call' = NoCall

\* C14 (peasants follow the Monarch): in every settled state each running
\* process that owns a peasant, the king included, has that peasant in the
\* peasant set of the live Monarch; and the election of a live WindowManager
\* does not fail: it ends with the peasant in the set of the Monarch the
\* process is now connected to, whether it won or lost.
C14_PeasantsWithLiveMonarch ==
    /\ [](Settled =>
            \A p \in Procs : IsAlive(p) /\ peasant[p] > 0 =>
                /\ liveProvider # None /\ hosted[liveProvider]
                /\ <<p, peasant[p]>> \in peasants[liveProvider])
    /\ [][\A p \in Procs :
            WatcherElectionStep(p) /\ wm[p] = "live" =>
                /\ proc'[p] = "run"
                /\ proc'[monarch'[p]] = "run"
                /\ <<p, peasant[p]>> \in peasants'[monarch'[p]]]_vars

\* C14 witness: a settled state after an election with two survivors that own
\* peasants: the new king and the loser, both in the new king's peasant set,
\* the old king gone.
C14_Witness ==
    /\ Settled
    /\ \E k, q, d \in Procs :
        /\ k # q /\ proc[d] = "terminated"
        /\ King(k) /\ thread[k] = "exited" /\ peasant[k] > 0
        /\ Connected(q) /\ monarch[q] = k /\ peasant[q] > 0
        /\ {<<k, peasant[k]>>, <<q, peasant[q]>>} \subseteq peasants[k]

\* C15 (the watcher after an election): an election that makes the process
\* king ends the watcher thread, and an ended watcher never runs again; an
\* election that leaves it a subject sends the watcher back to the top of the
\* loop, with a handle to a Monarch in a running process that is not the one
\* that ended. The pid the watcher opens and the process handle it waits on
\* are those of the Monarch it holds now, and no process that evaluates
\* itself as king has a watcher in the loop or in the wait.
C15_WatcherAfterElection ==
    /\ [](\A p \in Procs : IsAlive(p) =>
            /\ thread[p] = "open" => waitPid[p] = monarch[p]
            /\ thread[p] = "wait" /\ waitHandle[p] # None => waitHandle[p] = monarch[p]
            /\ AreWeTheKing(p) => thread[p] \notin {"loop", "open", "wait"})
    /\ [][\A p \in Procs :
            /\ ElectionStep(p) =>
                  /\ proc'[monarch'[p]] = "run" /\ monarch'[p] # monarch[p]
                  /\ OurPidIs(p, monarch'[p]) => thread'[p] = "exited"
                  /\ ~OurPidIs(p, monarch'[p]) => thread'[p] = "loop"
            /\ thread[p] = "exited" => thread'[p] \in {"exited", "joined", "none"}]_vars

\* C15 witness: after the first king ended, one subject has won the election
\* and its watcher has exited, and the other has lost, has looped and is
\* blocked in the wait on the handle of the winner's process.
C15_Witness ==
    \E k, q, d \in Procs :
        /\ proc[d] = "terminated"
        /\ King(k) /\ thread[k] = "exited"
        /\ IsAlive(q) /\ thread[q] = "wait" /\ waitHandle[q] = k /\ monarch[q] = k
        /\ WaitForMultipleObjects(q) = "blocked"

\* C16 as stated (one subscriber): in every settled state the event of the
\* live Monarch has exactly one subscriber.
C16_OneSubscriber ==
    Settled =>
        \A m \in Procs : liveProvider = m /\ hosted[m] => subs[m] = 1

\* C18 as stated (a proposal in the gap is survived): a ProposeCommandline call
\* of a subject whose coordinator has ended, made before the subject's watcher
\* has run its election, does not end the process.
C18_GapProposalSurvives ==
    [][\A p \in Procs :
        /\ RunningWatcher(p) /\ KingEnded(p)
        /\ call'.who = p \/ CreatePathStep(p)
        => proc'[p] = "run"]_vars

\* C19 as stated (the end of the coordinator is always observed): a watcher
\* that derives its liveness signal, or enters its wait, after the coordinator
\* has ended does not end its own process.
C19_DeathObserved ==
    [][\A p \in Procs :
        /\ RunningWatcher(p) /\ thread[p] \in {"loop", "open", "wait"}
        /\ KingEnded(p) /\ call' = NoCall
        => proc'[p] \in {"run", "terminated"}]_vars

\* C20 (somebody watches): a running process with a live WindowManager that
\* holds a peasant and is not king has a watcher thread that runs: on its way
\* into the wait, blocked in it, or in an election.
C20_SubjectIsWatching ==
    \A p \in Procs :
        IsAlive(p) /\ wm[p] = "live" /\ peasant[p] > 0 /\ ~AreWeTheKing(p) =>
            thread[p] \in {"loop", "open", "wait", "elect"}

\* C20 witness: a subject that owns a peasant has been through an election it
\* lost (its coordinator was launched after it) and is blocked in the wait
\* again.
C20_Witness ==
    \E p, m \in Procs :
        /\ p < m /\ IsAlive(p) /\ wm[p] = "live" /\ peasant[p] > 0
        /\ monarch[p] = m /\ IsAlive(m)
        /\ thread[p] = "wait" /\ waitHandle[p] = m

====
